---- MODULE Spec2Model ----
(***************************************************************************)
(* Fable RAG API: the multi-backend generation gateway (ClaudeCLI,         *)
(* GeminiCLI, CodexCLI, Ollama) and the /generate orchestrator of          *)
(* src/src/main.py, as a state machine.                                    *)
(*                                                                         *)
(* Python values are records [t, s, kids]: t is the Python type name, s    *)
(* the payload of a leaf (the text of a str, the digits of an int), kids   *)
(* the <<key, value>> pairs of a dict or the <<"", value>> items of a      *)
(* list.  Optional[str] fields are <<>> (None) or <<s>>.                   *)
(***************************************************************************)
EXTENDS Integers, Sequences, FiniteSets, TLC

VARIABLES
    LLM_PROVIDERS,        \* main.py:34, fixed at import
    OLLAMA_MODELS,        \* main.py:37, fixed at import
    llm_providers_cache,  \* main.py:40, cache key -> adapter instance
    ctorFailed,           \* history: the cache keys whose construction has raised
    ctorOk,               \* history: instances constructed so far, per cache key
    running,              \* the request whose coroutine holds the event loop, or 0
    pc,                   \* per request slot: position of its handler
    loc,                  \* per request slot: the handler's locals
    call                  \* the adapter generate call in progress / last made

vars == <<LLM_PROVIDERS, OLLAMA_MODELS, llm_providers_cache, ctorFailed, ctorOk,
          running, pc, loc, call>>

-----------------------------------------------------------------------------
(* Bounds *)

\* request slots served concurrently by the one event loop
NumRequests == 2
\* largest `limit` a request asks for (the code allows 1..10)
MaxLimit == 2
\* the per-key count of constructed instances saturates here
MaxInstances == 2

-----------------------------------------------------------------------------
(* Python values *)

None == <<>>
Some(x) == <<x>>
\* Python truthiness of an Optional[str]: None and "" are falsy
Truthy(opt) == opt # <<>> /\ opt[1] # ""

PyVal(t, s, kids) == [t |-> t, s |-> s, kids |-> kids]
PyNone == PyVal("NoneType", "", <<>>)
PyStr(s) == PyVal("str", s, <<>>)
PyInt(s) == PyVal("int", s, <<>>)
PyBool(s) == PyVal("bool", s, <<>>)
PyList(items) == PyVal("list", "", [i \in 1..Len(items) |-> <<"", items[i]>>])
PyDict(pairs) == PyVal("dict", "", pairs)

\* key in d  (d a dict)
HasKey(d, key) == \E i \in 1..Len(d.kids) : d.kids[i][1] = key

\* d[key]  (d a dict holding key)
Lookup(d, key) == d.kids[CHOOSE i \in 1..Len(d.kids) : d.kids[i][1] = key][2]

\* d.get(key, default)
DictGet(d, key, default) == IF HasKey(d, key) THEN Lookup(d, key) ELSE default

\* d[key] = val on the pair list of a dict being built: a repeated key keeps
\* its place and takes the later value
DictSet(pairs, key, val) ==
    IF \E i \in 1..Len(pairs) : pairs[i][1] = key
    THEN [i \in 1..Len(pairs) |->
            IF pairs[i][1] = key THEN <<key, val>> ELSE pairs[i]]
    ELSE Append(pairs, <<key, val>>)

RECURSIVE JoinRepr(_, _, _)
RECURSIVE Repr(_)
\* repr(v)
Repr(v) ==
    CASE v.t = "str" -> "'" \o v.s \o "'"
      [] v.t = "int" -> v.s
      [] v.t = "bool" -> v.s
      [] v.t = "NoneType" -> "None"
      [] v.t = "list" -> "[" \o JoinRepr(v.kids, 1, FALSE) \o "]"
      [] v.t = "dict" -> "{" \o JoinRepr(v.kids, 1, TRUE) \o "}"

\* ", ".join of the reprs of kids[i..], with "key: " before each for a dict
JoinRepr(kids, i, keyed) ==
    IF i > Len(kids) THEN ""
    ELSE (IF keyed THEN "'" \o kids[i][1] \o "': " ELSE "")
         \o Repr(kids[i][2])
         \o (IF i < Len(kids) THEN ", " ELSE "")
         \o JoinRepr(kids, i + 1, keyed)

\* str(v): a str is itself, anything else its repr
Str(v) == PyStr(IF v.t = "str" THEN v.s ELSE Repr(v))

-----------------------------------------------------------------------------
(* Process output and json.loads *)

\* stdout is a sequence of lexical tokens [k, v]:
\*   "p" punctuation  "s" string literal (v without its quotes)
\*   "n" number       "l" null / true / false
\*   "w" whitespace   "x" any other text
Tok(k, v) == [k |-> k, v |-> v]

\* the source text of a token
TokText(tk) == IF tk.k = "s" THEN "\"" \o tk.v \o "\"" ELSE tk.v

RECURSIVE SkipWs(_, _)
SkipWs(toks, i) ==
    IF i <= Len(toks) /\ toks[i].k = "w" THEN SkipWs(toks, i + 1) ELSE i

ParseFail == [ok |-> FALSE, val |-> PyNone, next |-> 0]
ParseOk(val, next) == [ok |-> TRUE, val |-> val, next |-> next]

IsPunct(toks, i, ch) == i <= Len(toks) /\ toks[i].k = "p" /\ toks[i].v = ch

RECURSIVE ParseValue(_, _)
RECURSIVE ParseMembers(_, _, _, _)
RECURSIVE ParseElements(_, _, _, _)

\* one JSON value starting at toks[i], after whitespace
ParseValue(toks, i) ==
    LET j == SkipWs(toks, i) IN
    IF j > Len(toks) THEN ParseFail
    ELSE LET tk == toks[j] IN
         CASE tk.k = "s" -> ParseOk(PyStr(tk.v), j + 1)
           [] tk.k = "n" -> ParseOk(PyInt(tk.v), j + 1)
           [] tk.k = "l" ->
                ParseOk(CASE tk.v = "null" -> PyNone
                          [] tk.v = "true" -> PyBool("True")
                          [] OTHER -> PyBool("False"), j + 1)
           [] tk.k = "p" /\ tk.v = "{" -> ParseMembers(toks, j + 1, <<>>, TRUE)
           [] tk.k = "p" /\ tk.v = "[" -> ParseElements(toks, j + 1, <<>>, TRUE)
           [] OTHER -> ParseFail

\* the members of an object after "{" (first) or after "," (not first)
ParseMembers(toks, i, acc, first) ==
    LET j == SkipWs(toks, i) IN
    IF first /\ IsPunct(toks, j, "}") THEN ParseOk(PyDict(acc), j + 1)
    ELSE IF j > Len(toks) \/ toks[j].k # "s" THEN ParseFail
    ELSE LET c == SkipWs(toks, j + 1) IN
         IF ~IsPunct(toks, c, ":") THEN ParseFail
         ELSE LET r == ParseValue(toks, c + 1) IN
              IF ~r.ok THEN ParseFail
              ELSE LET e == SkipWs(toks, r.next)
                       acc2 == DictSet(acc, toks[j].v, r.val) IN
                   IF IsPunct(toks, e, "}") THEN ParseOk(PyDict(acc2), e + 1)
                   ELSE IF IsPunct(toks, e, ",")
                        THEN ParseMembers(toks, e + 1, acc2, FALSE)
                        ELSE ParseFail

\* the elements of an array after "[" (first) or after "," (not first)
ParseElements(toks, i, acc, first) ==
    LET j == SkipWs(toks, i) IN
    IF first /\ IsPunct(toks, j, "]") THEN ParseOk(PyList(acc), j + 1)
    ELSE LET r == ParseValue(toks, j) IN
         IF ~r.ok THEN ParseFail
         ELSE LET e == SkipWs(toks, r.next)
                  acc2 == Append(acc, r.val) IN
              IF IsPunct(toks, e, "]") THEN ParseOk(PyList(acc2), e + 1)
              ELSE IF IsPunct(toks, e, ",")
                   THEN ParseElements(toks, e + 1, acc2, FALSE)
                   ELSE ParseFail

\* json.loads(text): one value, then only whitespace; anything else raises
\* JSONDecodeError (ok = FALSE)
json_loads(toks) ==
    LET r == ParseValue(toks, 1) IN
    IF r.ok /\ SkipWs(toks, r.next) > Len(toks) THEN r ELSE ParseFail

RECURSIVE JoinToks(_, _, _)
JoinToks(toks, i, j) ==
    IF i > j THEN "" ELSE TokText(toks[i]) \o JoinToks(toks, i + 1, j)

RECURSIVE SkipWsBack(_, _)
SkipWsBack(toks, j) ==
    IF j >= 1 /\ toks[j].k = "w" THEN SkipWsBack(toks, j - 1) ELSE j

\* text.strip()
Strip(toks) == PyStr(JoinToks(toks, SkipWs(toks, 1), SkipWsBack(toks, Len(toks))))

-----------------------------------------------------------------------------
(* Outcomes of a Python call: a returned value or a raised exception *)

Returns(v) == [exc |-> "", val |-> v]
Raises(e) == [exc |-> e, val |-> PyNone]

\* the exception classes the external calls and the extraction code raise;
\* every one is a subclass of Exception
ExceptionClasses ==
    {"TimeoutExpired", "OSError", "JSONDecodeError", "AttributeError",
     "TypeError", "ResponseError", "ConnectionError"}

-----------------------------------------------------------------------------
(* Response extraction of the three CLI adapters *)

\* claude.py:52-61: the try block around json.loads
ClaudeExtract(stdout) ==
    LET r == json_loads(stdout) IN
    IF ~r.ok THEN Returns(Strip(stdout))
    ELSE IF r.val.t = "dict"
         THEN Returns(DictGet(r.val, "result",
                      DictGet(r.val, "text",
                      DictGet(r.val, "content", Str(r.val)))))
         ELSE Returns(Str(r.val))

\* gemini.py:59-68
GeminiExtract(stdout) ==
    LET r == json_loads(stdout) IN
    IF ~r.ok THEN Returns(Strip(stdout))
    ELSE IF r.val.t = "dict"
         THEN Returns(DictGet(r.val, "response",
                      DictGet(r.val, "text",
                      DictGet(r.val, "content", Str(r.val)))))
         ELSE Returns(Str(r.val))

\* item.get("text", str(item)) at codex.py:79; `"content" in item` and
\* item.get on anything but a dict raise TypeError or AttributeError
CodexItemText(item) ==
    IF item.t # "dict" THEN Raises("AttributeError")
    ELSE Returns(DictGet(item, "text", Str(item)))

\* codex.py:69-83
CodexExtract(stdout) ==
    LET r == json_loads(stdout) IN
    IF ~r.ok THEN Returns(Strip(stdout))
    ELSE IF r.val.t = "dict" /\ HasKey(r.val, "item")
         THEN LET item == Lookup(r.val, "item") IN
              IF item.t = "NoneType" \/ item.t = "int" \/ item.t = "bool"
              THEN Raises("TypeError")          \* "content" in item
              ELSE IF item.t = "dict" /\ HasKey(item, "content")
                   THEN LET content == Lookup(item, "content") IN
                        IF content.t = "list" /\ Len(content.kids) > 0
                        THEN LET first == content.kids[1][2] IN
                             IF first.t # "dict" THEN Raises("AttributeError")
                             ELSE Returns(DictGet(first, "text", Str(first)))
                        ELSE CodexItemText(item)
                   ELSE CodexItemText(item)
         ELSE Returns(Str(r.val))

-----------------------------------------------------------------------------
(* What a backend process may print *)

LB == Tok("p", "{")
RB == Tok("p", "}")
LS == Tok("p", "[")
RS == Tok("p", "]")
CO == Tok("p", ":")
CM == Tok("p", ",")
NL == Tok("w", "\n")
SP == Tok("w", " ")
S(v) == Tok("s", v)

\* stdout of a backend process (for CodexCLI: of the jq filter)
Outputs == <<
    \* 1: Claude CLI's shape
    <<LB, S("result"), CO, SP, S("Be honest."), CM, S("type"), CO, S("result"), RB, NL>>,
    \* 2: Gemini CLI's shape
    <<LB, S("response"), CO, S("Slow and steady."), CM, S("stats"), CO, LB, RB, RB>>,
    \* 3: a Codex item.completed event with the message in item.text
    <<LB, S("type"), CO, S("item.completed"), CM, S("item"), CO,
        LB, S("type"), CO, S("agent_message"), CM, S("text"), CO, S("Do not lie."), RB,
      RB, NL>>,
    \* 4: a Codex event with the message in item.content[0].text
    <<LB, S("item"), CO, LB, S("content"), CO,
        LS, LB, S("type"), CO, S("text"), CM, S("text"), CO, S("Keep your word."), RB, RS,
      RB, RB>>,
    \* 5: text that is not JSON
    <<Tok("x", "Honesty builds trust over time."), NL>>,
    \* 6: a candidate field holding null
    <<LB, S("result"), CO, Tok("l", "null"), CM, S("response"), CO, Tok("l", "null"), RB>>,
    \* 7: a candidate field holding a number, a later one holding text
    <<LB, S("result"), CO, Tok("n", "5"), CM, S("response"), CO, Tok("n", "5"),
      CM, S("text"), CO, S("five"), RB>>,
    \* 8: only the later candidates
    <<LB, S("content"), CO, S("third"), CM, S("text"), CO, S("second"), RB>>,
    \* 9: a candidate field holding a nested object
    <<LB, S("content"), CO, LB, S("k"), CO, S("v"), RB, RB>>,
    \* 10: an object with no candidate field
    <<LB, S("foo"), CO, S("bar"), RB>>,
    \* 11: a JSON array
    <<LS, Tok("n", "1"), CM, SP, S("a"), RS>>,
    \* 12: a JSON string
    <<S("just a string")>>,
    \* 13: a JSON number
    <<Tok("n", "42"), NL>>,
    \* 14: JSON null
    <<Tok("l", "null")>>,
    \* 15: nothing
    <<>>,
    \* 16: two events one after the other
    <<LB, S("item"), CO, LB, S("text"), CO, S("one"), RB, RB, NL,
      LB, S("item"), CO, LB, S("text"), CO, S("two"), RB, RB, NL>>,
    \* 17: cut short
    <<LB, S("result"), CO>>,
    \* 18: item.content an array of strings
    <<LB, S("item"), CO, LB, S("content"), CO, LS, S("plain"), RS, RB, RB>>,
    \* 19: item a string
    <<LB, S("item"), CO, S("content of the item"), RB>>,
    \* 20: item.content an empty array, no item.text
    <<LB, S("item"), CO, LB, S("content"), CO, LS, RS, RB, RB>>,
    \* 21: item.content[0] an object without text
    <<LB, S("item"), CO, LB, S("content"), CO, LS, LB, S("type"), CO, S("x"), RB, RS, RB, RB>>,
    \* 22: item null
    <<LB, S("item"), CO, Tok("l", "null"), RB>>,
    \* 23: a candidate field holding an array
    <<LB, S("response"), CO, LS, S("a"), RS, CM, S("result"), CO, LS, S("a"), RS, RB>>,
    \* 24: item.text a number
    <<LB, S("item"), CO, LB, S("text"), CO, Tok("n", "7"), RB, RB>>
>>

\* the outputs the orchestrator's runs draw from
OrchOutputs == {3, 5, 7}

-----------------------------------------------------------------------------
(* One call of an adapter's generate *)

Adapters == {"ClaudeCLI", "GeminiCLI", "CodexCLI", "Ollama"}
ProcNames == {"claude", "gemini", "codex", "jq"}

\* a process is "none" (not spawned), "running", "exited" (terminated, its
\* handle not yet waited on) or "reaped"
NoProcs == [p \in ProcNames |-> "none"]

\* phase: "idle", "entered" (in the try block), "spawned" (blocked in
\* communicate / in the API call), "waited" (the external call is over: exc
\* is the exception it raised, or rc/out/resp its result), "returned"
IdleCall ==
    [adapter |-> "", phase |-> "idle", procs |-> NoProcs, exc |-> "",
     rc |-> 0, out |-> <<>>, resp |-> PyNone, ret |-> PyNone, raised |-> ""]

GenerateEnter(adapter) == [IdleCall EXCEPT !.adapter = adapter, !.phase = "entered"]

\* how starting the processes may go
SpawnOutcomes(adapter) ==
    CASE adapter = "CodexCLI" -> {"ok", "oserror_codex", "oserror_jq"}
      [] adapter = "Ollama" -> {"ok"}
      [] OTHER -> {"ok", "oserror"}

\* the Popen inside subprocess.run (claude.py:40, gemini.py:46), the two
\* Popen of codex.py:46-59, the request of ollama.generate (ollama.py:88)
PopenStep(c, spawn) ==
    CASE c.adapter = "ClaudeCLI" ->
            IF spawn = "ok"
            THEN [c EXCEPT !.phase = "spawned", !.procs["claude"] = "running"]
            ELSE [c EXCEPT !.phase = "waited", !.exc = "OSError"]
      [] c.adapter = "GeminiCLI" ->
            IF spawn = "ok"
            THEN [c EXCEPT !.phase = "spawned", !.procs["gemini"] = "running"]
            ELSE [c EXCEPT !.phase = "waited", !.exc = "OSError"]
      [] c.adapter = "CodexCLI" ->
            CASE spawn = "ok" ->
                    [c EXCEPT !.phase = "spawned", !.procs["codex"] = "running",
                              !.procs["jq"] = "running"]
              [] spawn = "oserror_codex" ->
                    [c EXCEPT !.phase = "waited", !.exc = "OSError"]
              [] OTHER ->
                    \* codex is running when Popen(["jq", ...]) raises
                    [c EXCEPT !.phase = "waited", !.exc = "OSError",
                              !.procs["codex"] = "running"]
      [] OTHER -> [c EXCEPT !.phase = "spawned"]

\* what the backend does once started.  how: "exit" (the waited-for process
\* ends within the timeout with rc and Outputs[out]), "timeout" (it does
\* not); for Ollama "exit" is a response and "error" a raised error.
\* codexDone: whether the codex process has ended by then.
Behaviour(how, rc, out, codexDone) ==
    [how |-> how, rc |-> rc, out |-> out, codexDone |-> codexDone]

\* the body of an Ollama response
OllamaResponses == <<
    PyDict(<< <<"model", PyStr("m1")>>, <<"response", PyStr("The moral is patience.")>> >>),
    PyDict(<< <<"model", PyStr("m1")>>, <<"response", PyStr("")>> >>),
    PyDict(<< <<"model", PyStr("m1")>> >>)
>>

Behaviours(adapter, outs) ==
    CASE adapter = "Ollama" ->
            {Behaviour("exit", 0, i, TRUE) : i \in 1..Len(OllamaResponses)}
            \cup {Behaviour("error", 0, 0, TRUE)}
      [] adapter = "CodexCLI" ->
            {Behaviour("exit", 0, i, d) : i \in outs, d \in BOOLEAN}
            \cup {Behaviour("exit", 1, 15, d) : d \in BOOLEAN}
            \cup {Behaviour("timeout", 0, 15, d) : d \in BOOLEAN}
      [] OTHER ->
            {Behaviour("exit", 0, i, TRUE) : i \in outs}
            \cup {Behaviour("exit", 1, 15, TRUE), Behaviour("timeout", 0, 15, TRUE)}

\* subprocess.run(..., timeout=timeout) on process p (claude.py:40-45,
\* gemini.py:46-52): communicate, and on expiry kill, wait and re-raise
SubprocessRun(c, p, b) ==
    IF b.how = "timeout"
    THEN [c EXCEPT !.phase = "waited", !.procs[p] = "reaped", !.exc = "TimeoutExpired"]
    ELSE [c EXCEPT !.phase = "waited", !.procs[p] = "reaped", !.rc = b.rc,
                   !.out = Outputs[b.out]]

\* jq_process.communicate(timeout=timeout) (codex.py:61-62): on expiry it
\* raises and touches neither process
CodexCommunicate(c, b) ==
    LET codex == IF b.codexDone THEN "exited" ELSE "running" IN
    IF b.how = "timeout"
    THEN [c EXCEPT !.phase = "waited", !.procs["codex"] = codex,
                   !.exc = "TimeoutExpired"]
    ELSE [c EXCEPT !.phase = "waited", !.procs["codex"] = codex,
                   !.procs["jq"] = "reaped", !.rc = b.rc, !.out = Outputs[b.out]]

\* ollama.generate(model=..., prompt=...) (ollama.py:88-91)
OllamaCall(c, b) ==
    IF b.how = "error"
    THEN [c EXCEPT !.phase = "waited", !.exc = "ResponseError"]
    ELSE [c EXCEPT !.phase = "waited", !.resp = OllamaResponses[b.out]]

CommStep(c, b) ==
    CASE c.adapter = "ClaudeCLI" -> SubprocessRun(c, "claude", b)
      [] c.adapter = "GeminiCLI" -> SubprocessRun(c, "gemini", b)
      [] c.adapter = "CodexCLI" -> CodexCommunicate(c, b)
      [] OTHER -> OllamaCall(c, b)

\* the except clauses without the final `except Exception`
CliExceptTimeoutOnly(exc) ==
    IF exc = "TimeoutExpired" THEN Returns(PyNone) ELSE Raises(exc)

\* the except clauses of the CLI adapters (claude.py:63-68, gemini.py:70-75,
\* codex.py:85-90): TimeoutExpired, then Exception
CliExcept(exc) ==
    IF exc = "TimeoutExpired" THEN Returns(PyNone)
    ELSE IF exc \in ExceptionClasses THEN Returns(PyNone)
    ELSE Raises(exc)

\* ollama.py:94-97
OllamaExcept(exc) ==
    IF exc \in ExceptionClasses THEN Returns(PyNone) ELSE Raises(exc)

\* the statements of generate after the external call, by adapter
Extract(adapter, stdout) ==
    CASE adapter = "ClaudeCLI" -> ClaudeExtract(stdout)
      [] adapter = "GeminiCLI" -> GeminiExtract(stdout)
      [] OTHER -> CodexExtract(stdout)

\* claude.py:47-68, gemini.py:54-75, codex.py:64-90, ollama.py:92-97
AfterCall(c) ==
    IF c.adapter = "Ollama"
    THEN IF c.exc # "" THEN OllamaExcept(c.exc)
         ELSE Returns(DictGet(c.resp, "response", PyNone))
    ELSE IF c.exc # "" THEN CliExcept(c.exc)
    ELSE IF c.rc # 0 THEN Returns(PyNone)
    ELSE LET e == Extract(c.adapter, c.out) IN
         IF e.exc # "" THEN CliExcept(e.exc) ELSE e

\* leaving generate drops the Popen objects: a child that has ended is
\* reaped then, one still running stays running
Teardown(procs) ==
    [p \in ProcNames |-> IF procs[p] = "exited" THEN "reaped" ELSE procs[p]]

FinishStep(c) ==
    LET o == AfterCall(c) IN
    [c EXCEPT !.phase = "returned", !.ret = o.val, !.raised = o.exc,
              !.procs = Teardown(c.procs)]

-----------------------------------------------------------------------------
(* Configuration and environment of the server *)

\* LLM_PROVIDERS (main.py:33-34) and OLLAMA_MODELS (main.py:36-37) as the
\* environment may set them
Configs == <<
    [providers |-> <<"ollama">>, models |-> <<>>],
    [providers |-> <<"ollama">>, models |-> <<"m1", "m2">>],
    [providers |-> <<"claude_code", "codex">>, models |-> <<>>],
    [providers |-> <<"gemini_cli", "ollama">>, models |-> <<"m1">>]
>>

\* main.py:35 with LLM_DEFAULT_PROVIDER unset in the environment
LLM_DEFAULT_PROVIDER ==
    IF LLM_PROVIDERS # <<>> THEN LLM_PROVIDERS[1] ELSE "ollama"

InList(x, list) == \E i \in 1..Len(list) : list[i] = x

\* what ollama.list() may report at the time an adapter is constructed
\* (an error of the call is reported as the empty list, ollama.py:47-49)
Catalogs == {<<>>, <<"m1">>, <<"m2", "m1">>}

\* the programs `which` may find at the time an adapter is constructed
Installs == {{}, {"codex"}, {"claude", "gemini", "codex", "jq"}}

\* the values a request may carry
ProviderInputs ==
    {None, Some("ollama"), Some("claude_code"), Some("gemini_cli"),
     Some("codex"), Some("bogus")}
ModelInputs == {None, Some("m1"), Some("m2"), Some("m3")}
Queries == {"What can we learn about honesty?"}

\* the stored fables the retrieval collaborator may return
Fables == <<
    [id |-> 1, payload |-> [title |-> "The Boy Who Cried Wolf",
                            content |-> "A shepherd boy lied.",
                            moral |-> "Liars are not believed.",
                            language |-> "en", word_count |-> 4]],
    [id |-> 2, payload |-> [title |-> "The Tortoise and the Hare",
                            content |-> "A hare napped.",
                            moral |-> "Slow and steady wins.",
                            language |-> "en", word_count |-> 3]]
>>

\* relevance scores (percent) by rank: the collaborator returns hits best first
Scores == <<91, 77>>

\* qdrant_manager.search(..., limit=limit): at most `limit` hits, each a
\* different stored fable
SearchResults(limit) ==
    LET n == Len(Fables)
        hit(f, k) == [id |-> Fables[f].id, payload |-> Fables[f].payload,
                      score |-> Scores[k]]
    IN  {<<>>}
        \cup {<<hit(f, 1)>> : f \in 1..n}
        \cup (IF limit >= 2
              THEN {<<hit(q[1], 1), hit(q[2], 2)>> :
                        q \in {q \in (1..n) \X (1..n) : q[1] # q[2]}}
              ELSE {})

-----------------------------------------------------------------------------
(* Adapter construction *)

\* an adapter instance; inst tells apart two instances built for one key
Adapter(kind, model, inst) == [kind |-> kind, model |-> model, inst |-> inst]

Built(kind, model) == [exc |-> "", kind |-> kind, model |-> model]
Failed(exc) == [exc |-> exc, kind |-> "", model |-> None]

\* Ollama.__init__ (ollama.py:9-25).  UnknownModel is the ValueError of
\* line 20, NoModelsAvailable the RuntimeError of line 25.
OllamaInit(model, catalog) ==
    IF Truthy(model)
    THEN IF ~InList(model[1], catalog) THEN Failed("UnknownModel")
         ELSE Built("Ollama", model)
    ELSE IF catalog # <<>> THEN Built("Ollama", Some(catalog[1]))
    ELSE Failed("NoModelsAvailable")

\* _check_available of the CLI adapters (claude.py:14-24, gemini.py:21-31,
\* codex.py:14-29): Unavailable is the RuntimeError they raise
CliInit(kind, needs, installed, model) ==
    IF needs \subseteq installed THEN Built(kind, model) ELSE Failed("Unavailable")

\* get_llm_provider (main.py:43-54); UnknownProvider is its ValueError
get_llm_provider(provider_name, ollama_model, catalog, installed) ==
    CASE provider_name = "ollama" -> OllamaInit(ollama_model, catalog)
      [] provider_name = "gemini_cli" ->
            CliInit("GeminiCLI", {"gemini"}, installed, Some("pro"))
      [] provider_name = "claude_code" ->
            CliInit("ClaudeCLI", {"claude"}, installed, None)
      [] provider_name = "codex" ->
            CliInit("CodexCLI", {"codex", "jq"}, installed, None)
      [] OTHER -> Failed("UnknownProvider")

\* what the construction of provider_name consults
Probes(provider_name) ==
    IF provider_name = "ollama"
    THEN {[catalog |-> c, installed |-> {}] : c \in Catalogs}
    ELSE {[catalog |-> <<>>, installed |-> i] : i \in Installs}

\* main.py:265
CacheKey(provider_name, selected_model) ==
    IF provider_name = "ollama"
    THEN "ollama:" \o (IF selected_model = None THEN "None" ELSE selected_model[1])
    ELSE provider_name

AllKeys ==
    {CacheKey(p[1], m) : p \in ProviderInputs \ {None}, m \in ModelInputs}

-----------------------------------------------------------------------------
(* The /generate handler, generate_answer (main.py:233-337) *)

Slots == 1..NumRequests

\* a text assembled from parts is the sequence of its parts

\* main.py:287-291, one element of context_parts
FableBlock(i, payload) ==
    <<"Fable ", ToString(i), ": ", payload.title, "\n",
      "Content: ", payload.content, "\n",
      "Moral: ", payload.moral>>

RECURSIVE JoinBlocks(_, _)
\* "\n\n".join(context_parts[i..]) over enumerate(results, 1) (main.py:284-292)
JoinBlocks(results, i) ==
    IF i > Len(results) THEN <<>>
    ELSE FableBlock(i, results[i].payload)
         \o (IF i < Len(results) THEN <<"\n\n">> ELSE <<>>)
         \o JoinBlocks(results, i + 1)

\* the hits put in ascending order of id
SortById(results) ==
    IF Len(results) = 2 /\ results[1].id > results[2].id
    THEN <<results[2], results[1]>> ELSE results

\* the context built from the hits re-sorted by id
BuildContextSorted(results) == JoinBlocks(SortById(results), 1)

BuildContext(results) == JoinBlocks(results, 1)

PromptHead == "Based on the following fables, answer the user's question.\n\n"
PromptAsk == "\n\nUser's question: "
PromptTail ==
    "\n\nPlease provide a helpful answer based on the fables above. Reference specific fables when relevant."

\* main.py:295-301
BuildPromptText(context, query) ==
    <<PromptHead>> \o context \o <<PromptAsk, query, PromptTail>>

\* FableResult(...) for result in results (main.py:310-321)
FormatSources(results) ==
    [k \in 1..Len(results) |->
        [id |-> results[k].id,
         title |-> results[k].payload.title,
         content |-> results[k].payload.content,
         moral |-> results[k].payload.moral,
         score |-> results[k].score,
         language |-> results[k].payload.language,
         word_count |-> results[k].payload.word_count]]

\* main.py:323-325
ProviderInfo(provider_name, selected_model) ==
    IF provider_name = "ollama"
    THEN "ollama (" \o (IF selected_model = None THEN "None" ELSE selected_model[1]) \o ")"
    ELSE provider_name

\* a response: an HTTPException (status, detail) or a GenerateResponse
HTTPException(status, detail) ==
    [status |-> status, detail |-> detail, query |-> "", answer |-> PyNone,
     sources |-> <<>>, llm_provider |-> ""]

\* a response model whose answer field takes any value
GenerateResponseUnvalidated(query, answer, sources, llm_provider) ==
    [status |-> 200, detail |-> "", query |-> query, answer |-> answer,
     sources |-> sources, llm_provider |-> llm_provider]

\* GenerateResponse (main.py:95-99, built at 327-332): `answer: str` rejects
\* a value that is not a str with a ValidationError, which line 336 catches
GenerateResponse(query, answer, sources, llm_provider) ==
    IF answer.t # "str" THEN HTTPException(500, "Generate failed")
    ELSE [status |-> 200, detail |-> "", query |-> query, answer |-> answer,
          sources |-> sources, llm_provider |-> llm_provider]

NoRequest == [query |-> "", limit |-> 0, provider |-> None, ollama_model |-> None]

\* the locals of a handler; ctorRan, ctorExc, catalogSeen (the catalog a
\* failed Ollama construction saw), searched and genCalls record what the
\* handler has done so far
BlankLoc ==
    [request |-> NoRequest, provider_name |-> "", selected_model |-> None,
     cache_key |-> "", llm |-> None, results |-> <<>>, context |-> <<>>,
     prompt |-> <<>>, answer |-> PyNone, response |-> None,
     ctorRan |-> FALSE, ctorExc |-> "", catalogSeen |-> None,
     searched |-> FALSE, genCalls |-> 0]

\* the requests a client may send; the model field is read only on the
\* ollama branch (main.py:256-257), so it is varied only with the providers
\* that may resolve to ollama
Requests ==
    {[query |-> q, limit |-> l, provider |-> p, ollama_model |-> m] :
        q \in Queries, l \in 1..MaxLimit, p \in ProviderInputs, m \in ModelInputs}

RequestInputs ==
    {rq \in Requests :
        rq.ollama_model # None => rq.provider \in {None, Some("ollama")}}

\* a handler without the check of line 248
ProviderAvailableAny(provider_name) == TRUE

\* main.py:248, provider_name in LLM_PROVIDERS
ProviderAvailable(provider_name) == InList(provider_name, LLM_PROVIDERS)

\* startup_event (main.py:103-114) has set embedding_model and
\* qdrant_manager before the server accepts a request
Initialized == TRUE

\* a handler run by a thread pool: handlers interleave at every step
MayStepThreaded(r) == TRUE

\* generate_answer is a coroutine with no await in its body (main.py:234-337):
\* once the event loop has started it, no other handler runs until it has
\* returned or raised
MayStep(r) == IF pc[r] = "pending" THEN running = 0 ELSE running = r

Bump(n) == IF n < MaxInstances THEN n + 1 ELSE n

Init ==
    /\ \E i \in 1..Len(Configs) :
          /\ LLM_PROVIDERS = Configs[i].providers
          /\ OLLAMA_MODELS = Configs[i].models
    /\ llm_providers_cache = <<>>
    /\ ctorFailed = {}
    /\ ctorOk = [k \in AllKeys |-> 0]
    /\ running = 0
    /\ pc = [r \in Slots |-> "idle"]
    /\ loc = [r \in Slots |-> BlankLoc]
    /\ call = IdleCall

\* a request reaches the server
Arrive(r) ==
    /\ pc[r] = "idle"
    /\ pc' = [pc EXCEPT ![r] = "pending"]
    /\ UNCHANGED <<LLM_PROVIDERS, OLLAMA_MODELS, llm_providers_cache, ctorFailed,
                   ctorOk, running, loc, call>>

\* a handler whose first statement is the retrieval
StartAtSearch(r) ==
    /\ pc[r] = "pending"
    /\ MayStep(r)
    /\ \E rq \in RequestInputs : loc' = [loc EXCEPT ![r] = [BlankLoc EXCEPT !.request = rq]]
    /\ running' = r
    /\ pc' = [pc EXCEPT ![r] = "search"]
    /\ UNCHANGED <<LLM_PROVIDERS, OLLAMA_MODELS, llm_providers_cache, ctorFailed,
                   ctorOk, call>>

\* the event loop starts the handler of a waiting request
Start(r) ==
    /\ pc[r] = "pending"
    /\ MayStep(r)
    /\ \E rq \in RequestInputs : loc' = [loc EXCEPT ![r] = [BlankLoc EXCEPT !.request = rq]]
    /\ running' = r
    /\ pc' = [pc EXCEPT ![r] = "resolve"]
    /\ UNCHANGED <<LLM_PROVIDERS, OLLAMA_MODELS, llm_providers_cache, ctorFailed,
                   ctorOk, call>>

\* main.py:243-266 and, on a cache hit, 272
Resolve(r) ==
    /\ pc[r] = "resolve"
    /\ MayStep(r)
    /\ LET request == loc[r].request
           provider_name ==
               IF Truthy(request.provider) THEN request.provider[1]
               ELSE LLM_DEFAULT_PROVIDER
           selected_model ==
               IF provider_name # "ollama" THEN None
               ELSE IF Truthy(request.ollama_model) THEN request.ollama_model
               ELSE IF OLLAMA_MODELS # <<>> THEN Some(OLLAMA_MODELS[1])
               ELSE None
           cache_key == CacheKey(provider_name, selected_model)
           l1 == [loc[r] EXCEPT !.provider_name = provider_name]
           l2 == [l1 EXCEPT !.selected_model = selected_model]
           l3 == [l2 EXCEPT !.cache_key = cache_key]
           raise(l, status, detail) ==
               /\ loc' = [loc EXCEPT ![r] =
                            [l EXCEPT !.response = Some(HTTPException(status, detail))]]
               /\ pc' = [pc EXCEPT ![r] = "responded"]
       IN  IF ~Initialized
           THEN raise(loc[r], 503, "System not initialized yet")
           ELSE IF ~ProviderAvailable(provider_name)
           THEN raise(l1, 400, "Provider not available")
           ELSE IF Truthy(selected_model) /\ ~InList(selected_model[1], OLLAMA_MODELS)
           THEN raise(l2, 400, "Model not available")
           ELSE IF cache_key \in DOMAIN llm_providers_cache
           THEN /\ loc' = [loc EXCEPT ![r] =
                             [l3 EXCEPT !.llm = Some(llm_providers_cache[cache_key])]]
                /\ pc' = [pc EXCEPT ![r] = "search"]
           ELSE /\ loc' = [loc EXCEPT ![r] = l3]
                /\ pc' = [pc EXCEPT ![r] = "construct"]
    /\ UNCHANGED <<LLM_PROVIDERS, OLLAMA_MODELS, llm_providers_cache, ctorFailed,
                   ctorOk, running, call>>

\* cache[key] = value
CachePut(cache, key, value) ==
    [k \in DOMAIN cache \cup {key} |-> IF k = key THEN value ELSE cache[k]]

\* a handler that stores a marker under the key when the constructor raises
ConstructCachingFailure(r) ==
    /\ pc[r] = "construct"
    /\ MayStep(r)
    /\ \E probe \in Probes(loc[r].provider_name) :
         LET key == loc[r].cache_key
             made == get_llm_provider(loc[r].provider_name, loc[r].selected_model,
                                      probe.catalog, probe.installed)
             l1 == [loc[r] EXCEPT !.ctorRan = TRUE, !.ctorExc = made.exc]
         IN  IF made.exc # ""
                THEN /\ ctorFailed' = ctorFailed \cup {key}
                     /\ llm_providers_cache' =
                            CachePut(llm_providers_cache, key, Adapter("Failed", None, 0))
                     /\ loc' = [loc EXCEPT ![r] =
                                  [l1 EXCEPT !.response =
                                      Some(HTTPException(500, "Failed to initialize"))]]
                     /\ pc' = [pc EXCEPT ![r] = "responded"]
                     /\ UNCHANGED ctorOk
                ELSE LET inst == Adapter(made.kind, made.model, Bump(ctorOk[key]))
                         cache == CachePut(llm_providers_cache, key, inst)
                     IN  /\ llm_providers_cache' = cache
                         /\ UNCHANGED ctorFailed
                         /\ ctorOk' = [ctorOk EXCEPT ![key] = Bump(@)]
                         /\ loc' = [loc EXCEPT ![r] = [l1 EXCEPT !.llm = Some(cache[key])]]
                         /\ pc' = [pc EXCEPT ![r] = "search"]
    /\ UNCHANGED <<LLM_PROVIDERS, OLLAMA_MODELS, running, call>>

\* main.py:267-272 on a cache miss: the constructor with its probes, the
\* insertion, the read back
Construct(r) ==
    /\ pc[r] = "construct"
    /\ MayStep(r)
    /\ \E probe \in Probes(loc[r].provider_name) :
         LET key == loc[r].cache_key
             made == get_llm_provider(loc[r].provider_name, loc[r].selected_model,
                                      probe.catalog, probe.installed)
             seen == IF loc[r].provider_name = "ollama" /\ made.exc # ""
                     THEN Some(probe.catalog) ELSE None
             l1 == [loc[r] EXCEPT !.ctorRan = TRUE, !.ctorExc = made.exc,
                                  !.catalogSeen = seen]
         IN  IF made.exc # ""
                THEN /\ ctorFailed' = ctorFailed \cup {key}
                     /\ loc' = [loc EXCEPT ![r] =
                                  [l1 EXCEPT !.response =
                                      Some(HTTPException(500, "Failed to initialize"))]]
                     /\ pc' = [pc EXCEPT ![r] = "responded"]
                     /\ UNCHANGED <<llm_providers_cache, ctorOk>>
                ELSE LET inst == Adapter(made.kind, made.model, Bump(ctorOk[key]))
                         cache == CachePut(llm_providers_cache, key, inst)
                     IN  /\ llm_providers_cache' = cache
                         /\ UNCHANGED ctorFailed
                         /\ ctorOk' = [ctorOk EXCEPT ![key] = Bump(@)]
                         /\ loc' = [loc EXCEPT ![r] = [l1 EXCEPT !.llm = Some(cache[key])]]
                         /\ pc' = [pc EXCEPT ![r] = "search"]
    /\ UNCHANGED <<LLM_PROVIDERS, OLLAMA_MODELS, running, call>>


\* what encode_single and qdrant_manager.search may do: return hits or raise
SearchOutcomes(limit) ==
    {[exc |-> "", results |-> rs] : rs \in SearchResults(limit)}
    \cup {[exc |-> "Exception", results |-> <<>>]}

\* main.py:275-281; an exception is turned into a 500 at line 336-337
Search(r) ==
    /\ pc[r] = "search"
    /\ MayStep(r)
    /\ \E o \in SearchOutcomes(loc[r].request.limit) :
         LET l1 == [loc[r] EXCEPT !.searched = TRUE] IN
         IF o.exc # ""
         THEN /\ loc' = [loc EXCEPT ![r] =
                           [l1 EXCEPT !.response =
                               Some(HTTPException(500, "Generate failed"))]]
              /\ pc' = [pc EXCEPT ![r] = "responded"]
         ELSE /\ loc' = [loc EXCEPT ![r] = [l1 EXCEPT !.results = o.results]]
              /\ pc' = [pc EXCEPT ![r] = "build"]
    /\ UNCHANGED <<LLM_PROVIDERS, OLLAMA_MODELS, llm_providers_cache, ctorFailed,
                   ctorOk, running, call>>

\* main.py:283-301
BuildPrompt(r) ==
    /\ pc[r] = "build"
    /\ MayStep(r)
    /\ LET context == BuildContext(loc[r].results)
           prompt == BuildPromptText(context, loc[r].request.query)
       IN  loc' = [loc EXCEPT ![r] = [@ EXCEPT !.context = context, !.prompt = prompt]]
    /\ pc' = [pc EXCEPT ![r] = "generate"]
    /\ UNCHANGED <<LLM_PROVIDERS, OLLAMA_MODELS, llm_providers_cache, ctorFailed,
                   ctorOk, running, call>>

\* main.py:304, llm.generate(prompt) up to the point where it blocks on the
\* backend
GenerateCall(r) ==
    /\ pc[r] = "generate"
    /\ MayStep(r)
    /\ \E spawn \in SpawnOutcomes(loc[r].llm[1].kind) :
         call' = PopenStep(GenerateEnter(loc[r].llm[1].kind), spawn)
    /\ loc' = [loc EXCEPT ![r] = [@ EXCEPT !.genCalls = @ + 1]]
    /\ pc' = [pc EXCEPT ![r] = "generating"]
    /\ UNCHANGED <<LLM_PROVIDERS, OLLAMA_MODELS, llm_providers_cache, ctorFailed,
                   ctorOk, running>>

\* main.py:304, llm.generate(prompt): the external call ends or times out
GenerateWait(r) ==
    /\ pc[r] = "generating"
    /\ MayStep(r)
    /\ call.phase = "spawned"
    /\ \E b \in Behaviours(call.adapter, OrchOutputs) : call' = CommStep(call, b)
    /\ UNCHANGED <<LLM_PROVIDERS, OLLAMA_MODELS, llm_providers_cache, ctorFailed,
                   ctorOk, running, pc, loc>>

\* main.py:304, llm.generate(prompt) runs to its return and answer is
\* assigned (an exception leaves answer unassigned)
GenerateReturn(r) ==
    /\ pc[r] = "generating"
    /\ MayStep(r)
    /\ call.phase = "waited"
    /\ call' = FinishStep(call)
    /\ loc' = [loc EXCEPT ![r] = [@ EXCEPT !.answer = call'.ret]]
    /\ pc' = [pc EXCEPT ![r] = "answered"]
    /\ UNCHANGED <<LLM_PROVIDERS, OLLAMA_MODELS, llm_providers_cache, ctorFailed,
                   ctorOk, running>>

\* main.py:306-337
Respond(r) ==
    /\ pc[r] = "answered"
    /\ MayStep(r)
    /\ LET l == loc[r]
           resp ==
               IF call.raised # "" THEN HTTPException(500, "Generate failed")
               ELSE IF l.answer.t = "NoneType"
               THEN HTTPException(500, "LLM failed to generate response")
               ELSE GenerateResponse(l.request.query, l.answer,
                                     FormatSources(l.results),
                                     ProviderInfo(l.provider_name, l.selected_model))
       IN  loc' = [loc EXCEPT ![r] = [@ EXCEPT !.response = Some(resp)]]
    /\ pc' = [pc EXCEPT ![r] = "responded"]
    /\ UNCHANGED <<LLM_PROVIDERS, OLLAMA_MODELS, llm_providers_cache, ctorFailed,
                   ctorOk, running, call>>

\* the handler has returned or raised: the response goes to the client and
\* the event loop is free again
Return(r) ==
    /\ pc[r] = "responded"
    /\ MayStep(r)
    /\ pc' = [pc EXCEPT ![r] = "idle"]
    /\ loc' = [loc EXCEPT ![r] = BlankLoc]
    /\ running' = 0
    /\ call' = IdleCall
    /\ UNCHANGED <<LLM_PROVIDERS, OLLAMA_MODELS, llm_providers_cache, ctorFailed, ctorOk>>

Next ==
    \E r \in Slots :
        \/ Arrive(r)
        \/ Start(r)
        \/ Resolve(r)
        \/ Construct(r)
        \/ Search(r)
        \/ BuildPrompt(r)
        \/ GenerateCall(r)
        \/ GenerateWait(r)
        \/ GenerateReturn(r)
        \/ Respond(r)
        \/ Return(r)

Spec == Init /\ [][Next]_vars

\* the timeout of the blocking call expires (subprocess.run(timeout=timeout)
\* at claude.py:44 and gemini.py:51, communicate(timeout=timeout) at
\* codex.py:62); ollama.generate (ollama.py:89-92) is given no timeout
GenerateTimeout(r) == GenerateWait(r) /\ call'.exc = "TimeoutExpired"

-----------------------------------------------------------------------------
(* One generate call of each adapter on its own, over every output *)

AllOutputs == 1..Len(Outputs)

InitGen ==
    /\ LLM_PROVIDERS = Configs[1].providers
    /\ OLLAMA_MODELS = Configs[1].models
    /\ llm_providers_cache = <<>>
    /\ ctorFailed = {}
    /\ ctorOk = [k \in AllKeys |-> 0]
    /\ running = 0
    /\ pc = [r \in Slots |-> "idle"]
    /\ loc = [r \in Slots |-> BlankLoc]
    /\ call = IdleCall

orchVars == <<LLM_PROVIDERS, OLLAMA_MODELS, llm_providers_cache, ctorFailed, ctorOk,
              running, pc, loc>>

\* generate is called: the try block is entered and the processes started
GenPopen ==
    /\ call.phase = "idle"
    /\ \E a \in Adapters : \E spawn \in SpawnOutcomes(a) :
         call' = PopenStep(GenerateEnter(a), spawn)
    /\ UNCHANGED orchVars

\* the external call ends or times out
GenCommunicate ==
    /\ call.phase = "spawned"
    /\ \E b \in Behaviours(call.adapter, AllOutputs) : call' = CommStep(call, b)
    /\ UNCHANGED orchVars

\* generate runs to its return
GenFinish ==
    /\ call.phase = "waited"
    /\ call' = FinishStep(call)
    /\ UNCHANGED orchVars

NextGen == GenPopen \/ GenCommunicate \/ GenFinish

SpecGen == InitGen /\ [][NextGen]_vars

-----------------------------------------------------------------------------
(* Properties *)

Response(r) == loc[r].response[1]
Responded(r) == pc[r] = "responded"
Configured == {LLM_PROVIDERS[i] : i \in 1..Len(LLM_PROVIDERS)}

\* C1 (as amended): for every cache key at most one construction ever
\* returns an instance, the cache holds an entry for the key exactly when one
\* has, and every request that is past adapter resolution holds the instance
\* the cache holds for its key, however many requests are in flight.
C1_OneInstancePerKey ==
    /\ \A k \in AllKeys :
          /\ ctorOk[k] <= 1
          /\ (k \in DOMAIN llm_providers_cache) <=> (ctorOk[k] = 1)
    /\ \A r \in Slots :
          loc[r].llm # None =>
             /\ loc[r].cache_key \in DOMAIN llm_providers_cache
             /\ loc[r].llm[1] = llm_providers_cache[loc[r].cache_key]

\* C1 witness: a request got its adapter from the cache without constructing
\* it, while another request is waiting to be served
C1_Witness ==
    \E r, q \in Slots :
        /\ r # q
        /\ pc[q] = "pending"
        /\ loc[r].llm # None
        /\ ~loc[r].ctorRan

\* C1 as stated: the constructor is executed once per key, so no request
\* executes it for a key for which it has been executed before
C1_ConstructorRunsOnce ==
    [][\A r \in Slots :
          (~loc[r].ctorRan /\ loc'[r].ctorRan) =>
             loc[r].cache_key \notin (ctorFailed \cup DOMAIN llm_providers_cache)]_vars

\* C2: while a request is blocked in the external call of llm.generate, any
\* other waiting request can be started
C2_OthersProgress ==
    \A a, b \in Slots :
        (a # b /\ pc[a] = "generating" /\ call.phase = "spawned" /\ pc[b] = "pending")
            => ENABLED Start(b)

\* C3: when generate has returned, every process the call spawned has been
\* reaped
C3_NoProcessOutlivesCall ==
    call.phase = "returned" =>
        \A p \in ProcNames : call.procs[p] \in {"none", "reaped"}

\* C4: generate never raises, and returns None on a timeout, on a non-zero
\* exit code and on any exception of the external call
C4_NeverRaises ==
    call.phase = "returned" =>
        /\ call.raised = ""
        /\ (call.exc # "" \/ call.rc # 0) => call.ret = PyNone

\* C4 witness: a call that timed out has returned None
C4_Witness ==
    /\ call.phase = "returned"
    /\ call.exc = "TimeoutExpired"
    /\ call.ret = PyNone
    /\ call.raised = ""

\* C5: after a successful run of the backend process the CLI adapters return
\* a str, whatever the process printed
C5_ExtractionTotal ==
    (call.phase = "returned" /\ call.adapter # "Ollama" /\ call.exc = "" /\ call.rc = 0)
        => (call.raised = "" /\ call.ret.t = "str")

\* C6: a request naming a model the Ollama backend does not have ends in a
\* client error
C6_UnknownModelIsClientError ==
    \A r \in Slots :
        (Responded(r) /\ loc[r].provider_name = "ollama"
           /\ Truthy(loc[r].request.ollama_model)
           /\ loc[r].ctorExc = "UnknownModel")
            => Response(r).status \in 400..499

\* C7: a request whose backend is not among the configured ones ends with
\* status 400 without an adapter being constructed or cached and without
\* retrieval or generation
C7_UnknownBackend ==
    /\ [](\A r \in Slots :
            (pc[r] \notin {"idle", "pending", "resolve"}
               /\ loc[r].provider_name \notin Configured)
                => /\ Responded(r)
                   /\ Response(r).status = 400
                   /\ ~loc[r].ctorRan
                   /\ loc[r].llm = None
                   /\ ~loc[r].searched
                   /\ loc[r].genCalls = 0)
    /\ [][\A r \in Slots :
            (pc[r] = "resolve" /\ pc'[r] = "responded"
               /\ loc'[r].provider_name \notin Configured)
                => /\ llm_providers_cache' = llm_providers_cache
                   /\ call' = call]_vars

\* C7 witness: a request for a backend that is not configured was answered
C7_Witness ==
    \E r \in Slots :
        /\ Responded(r)
        /\ loc[r].provider_name \notin Configured
        /\ Response(r).status = 400

\* C8: Ollama requested without a model while its catalog is empty: the
\* construction fails with NoModelsAvailable, the request ends in a server
\* error, nothing is cached and generate is not called
C8_NoModelsAvailable ==
    \A r \in Slots :
        (Responded(r) /\ loc[r].provider_name = "ollama"
           /\ ~Truthy(loc[r].request.ollama_model)
           /\ loc[r].catalogSeen = Some(<<>>))
            => /\ loc[r].ctorExc = "NoModelsAvailable"
               /\ Response(r).status \in 500..599
               /\ loc[r].cache_key \notin DOMAIN llm_providers_cache
               /\ loc[r].genCalls = 0

\* C9: a request ends in success only when llm.generate returned a str, and
\* then the answer of the response is that str; when it returned None the
\* request ends in one response with status 500; a request calls
\* llm.generate at most once
C9_AnswerIsGeneratedText ==
    \A r \in Slots :
        /\ loc[r].genCalls <= 1
        /\ loc[r].response # None => Responded(r)
        /\ Responded(r) =>
             /\ Response(r).status = 200 =>
                   /\ loc[r].genCalls = 1
                   /\ call.phase = "returned"
                   /\ call.raised = ""
                   /\ call.ret.t = "str"
                   /\ Response(r).answer = call.ret
             /\ (loc[r].genCalls = 1 /\ call.raised = "" /\ call.ret = PyNone) =>
                   Response(r).status = 500

\* C9 witness: a request answered with the text its adapter returned
C9_Witness ==
    \E r \in Slots :
        /\ Responded(r)
        /\ Response(r).status = 200
        /\ call.ret = PyStr("Honesty builds trust over time.")
        /\ Response(r).answer = call.ret

\* the context of a request is built when its prompt is
ContextBuilt(r) ==
    \/ pc[r] \in {"generate", "generating", "answered"}
    \/ Responded(r) /\ loc[r].genCalls > 0

\* C10: the context is one block per hit, in the order of the hits, numbered
\* from 1, each block holding the title, content and moral of its hit, the
\* blocks separated by a blank line; the prompt is the fixed head, the
\* context, the fixed question lead, the query as sent and the fixed tail;
\* the sources of a successful response are the hits in the same order.
\* Context and prompt are thereby determined by the hits and the query.
C10_ContextAndPrompt ==
    \A r \in Slots :
        ContextBuilt(r) =>
            LET results == loc[r].results
                context == loc[r].context
                prompt == loc[r].prompt
                N == Len(results)
            IN  /\ Len(context) = (IF N = 0 THEN 0 ELSE 11 * N - 1)
                /\ \A k \in 1..N :
                      LET o == 11 * (k - 1) IN
                      /\ SubSeq(context, o + 1, o + 10) =
                            <<"Fable ", ToString(k), ": ", results[k].payload.title,
                              "\n", "Content: ", results[k].payload.content,
                              "\n", "Moral: ", results[k].payload.moral>>
                      /\ k < N => context[o + 11] = "\n\n"
                /\ Len(prompt) = Len(context) + 4
                /\ prompt[1] = PromptHead
                /\ SubSeq(prompt, 2, Len(context) + 1) = context
                /\ prompt[Len(context) + 2] = PromptAsk
                /\ prompt[Len(context) + 3] = loc[r].request.query
                /\ prompt[Len(context) + 4] = PromptTail
                /\ (Responded(r) /\ Response(r).status = 200) =>
                      /\ Len(Response(r).sources) = N
                      /\ \A k \in 1..N :
                            /\ Response(r).sources[k].id = results[k].id
                            /\ Response(r).sources[k].title = results[k].payload.title

\* C10 witness: a successful response over two hits that retrieval returned
\* in an order other than that of their ids
C10_Witness ==
    \E r \in Slots :
        /\ Responded(r)
        /\ Response(r).status = 200
        /\ Len(loc[r].results) = 2
        /\ loc[r].results[1].id > loc[r].results[2].id

\* C11: a call of llm.generate that is blocked in its backend is bounded by
\* a timeout, whatever the backend: the expiry of the timeout can end the
\* call, so a backend that never answers does not keep the request waiting
\* for ever
C11_CallBoundedByTimeout ==
    \A r \in Slots :
        (pc[r] = "generating" /\ call.phase = "spawned") => ENABLED GenerateTimeout(r)

\* the cache apart from the entry of key k is the same before and after
OthersKept(k) ==
    /\ DOMAIN llm_providers_cache' \ {k} = DOMAIN llm_providers_cache \ {k}
    /\ \A j \in DOMAIN llm_providers_cache \ {k} :
          llm_providers_cache'[j] = llm_providers_cache[j]

\* C12: a construction that fails stores nothing in the cache, so the key
\* has no entry while no construction for it has succeeded; a later request
\* with that key runs the constructor again; a construction that succeeds
\* is stored under the key and used by the request; a cache hit gives the
\* request the stored instance, runs no constructor and leaves the cache as
\* it is
C12_FailureNotCached ==
    /\ [](\A k \in AllKeys : ctorOk[k] = 0 => k \notin DOMAIN llm_providers_cache)
    /\ [][\A r \in Slots :
            /\ (pc[r] = "construct" /\ pc'[r] = "responded") =>
                  /\ loc'[r].ctorExc # ""
                  /\ llm_providers_cache' = llm_providers_cache
                  /\ loc'[r].llm = None
            /\ (pc[r] = "resolve" /\ pc'[r] \notin {"resolve", "responded"}
                  /\ loc'[r].cache_key \in ctorFailed
                  /\ ctorOk[loc'[r].cache_key] = 0) =>
                  pc'[r] = "construct"
            /\ (pc[r] = "construct" /\ pc'[r] = "search") =>
                  /\ loc[r].cache_key \in DOMAIN llm_providers_cache'
                  /\ loc'[r].llm = Some(llm_providers_cache'[loc[r].cache_key])
                  /\ OthersKept(loc[r].cache_key)
            /\ (pc[r] = "resolve" /\ pc'[r] = "search") =>
                  /\ loc'[r].cache_key \in DOMAIN llm_providers_cache
                  /\ loc'[r].llm = Some(llm_providers_cache[loc'[r].cache_key])
                  /\ ~loc'[r].ctorRan
                  /\ llm_providers_cache' = llm_providers_cache
                  /\ ctorOk' = ctorOk
                  /\ ctorFailed' = ctorFailed]_vars

\* C12 witness: a request constructed, cached and holds the adapter for a
\* key whose construction had failed for an earlier request
C12_Witness ==
    \E r \in Slots :
        /\ loc[r].ctorRan
        /\ loc[r].ctorExc = ""
        /\ loc[r].cache_key \in ctorFailed
        /\ loc[r].cache_key \in DOMAIN llm_providers_cache
        /\ loc[r].llm = Some(llm_providers_cache[loc[r].cache_key])

\* C13 (as amended): within a request the backend is resolved and its
\* adapter taken from the cache or constructed first, then comes retrieval,
\* then the context and the prompt, then the one call of llm.generate, then
\* the successful response
C13_StepOrder ==
    \A r \in Slots :
        /\ pc[r] \in {"idle", "pending", "resolve", "construct"} =>
              (~loc[r].searched /\ loc[r].prompt = <<>> /\ loc[r].genCalls = 0)
        /\ loc[r].searched => loc[r].llm # None
        /\ loc[r].prompt # <<>> => loc[r].searched
        /\ loc[r].genCalls > 0 => loc[r].prompt # <<>>
        /\ (Responded(r) /\ Response(r).status = 200) =>
              (loc[r].genCalls = 1 /\ call.phase = "returned")

\* C13 witness: a request whose retrieval failed after the request had
\* constructed and cached its adapter
C13_Witness ==
    \E r \in Slots :
        /\ Responded(r)
        /\ loc[r].ctorRan
        /\ loc[r].cache_key \in DOMAIN llm_providers_cache
        /\ loc[r].searched
        /\ loc[r].prompt = <<>>
        /\ Response(r).status = 500

\* C13 as stated: retrieval comes before the backend is resolved, so a
\* request that has run the constructor or holds an adapter has completed
\* its retrieval
C13_RetrievalBeforeResolution ==
    \A r \in Slots :
        (loc[r].ctorRan \/ loc[r].llm # None) => loc[r].searched

\* C14: every Ollama adapter in the cache is stored under the key
\* "ollama:<m>" of its own model m, and the llm_provider label of a successful
\* response of the ollama backend names the model of the adapter that
\* generated the answer
C14_KeyAndLabelNameTheModel ==
    /\ \A k \in DOMAIN llm_providers_cache :
          llm_providers_cache[k].kind = "Ollama" =>
              k = "ollama:" \o llm_providers_cache[k].model[1]
    /\ \A r \in Slots :
          (Responded(r) /\ Response(r).status = 200 /\ loc[r].provider_name = "ollama") =>
              Response(r).llm_provider = "ollama (" \o loc[r].llm[1].model[1] \o ")"

====
